---- MODULE Spec2Model ----
(***************************************************************************)
(* Verification model of the position-indexed annotation core of           *)
(* isaac_variant_caller:                                                   *)
(*   - depth_buffer          (starling_common/depth_buffer.hh)             *)
(*   - pos_processor_base    (blt_util/pos_processor_base.hh)              *)
(*   - is_spi_allref         (blt_common/snp_util.hh)                      *)
(*   - shared_modifiers::write_filters (starling_common/gvcf_locus_info.cpp)*)
(* Each component has its own specification over the shared variables.     *)
(***************************************************************************)
EXTENDS Integers, Naturals, Sequences, FiniteSets, TLC

VARIABLES
    data,        \* depth_buffer::_data, a map pos_t -> unsigned
    valRet,      \* what the last call returned: <<pos, unsigned>> for val(pos),
                 \* <<>> for inc and clear_pos, which return void
    incs,        \* history: per coordinate, the exact number of inc(c) calls
                 \* since construction or since the last clear_pos(c)
    hist,        \* history: per coordinate, what has happened to it so far
    skip,        \* pos_processor_base::_is_skip_process_pos
    pc,          \* where the processor is: "idle", or "in_hook" while
                 \* check_process_pos is inside its process_pos call
    cur,         \* the <<stage_no, pos>> of the running check_process_pos
    outcome,     \* how the last check_process_pos call ended, seen by its caller
    delivered,   \* history: the <<stage_no, pos>> of every process_pos invocation
    callLog,     \* history: every check_process_pos call, with the state it met
    written,     \* history: the flag value the constructor or subclass wrote last
    hookRaised,  \* history: the failure process_pos raised in the last
                 \* check_process_pos call, "none" if it raised none
    pi_head,     \* snp_pos_info::calls: <<b>> when the vector begins with 2^32
                 \* calls of base_id b, <<>> when it does not
    pi_calls,    \* snp_pos_info::calls, the base_id of each call that follows
    ref_gt,      \* the ref_gt argument of is_spi_allref
    ndebug,      \* the build: TRUE when NDEBUG compiles the assert away
    allref,      \* how the is_spi_allref call ended, "unset" before it
    smod,        \* a site_modifiers record: flags, modified_gt, filters
    os,          \* the tokens write_filters put on the stream
    encoded,     \* write_filters has run on the record
    setLog,      \* history: the filter kinds set on the record, in call order
    dump,        \* the tokens operator<< put on the stream for the record
    f_head,      \* countFastaBases: how the input file begins: "none", or
                 \* with ">x" and some 2^32 empty lines ("lines") or some
                 \* 2^32 bases ("bases")
    f_lines,     \* the lines of the input file that follow, each a sequence
                 \* of runs <<byte, length>>
    f_nl,        \* the input ends with a newline
    f_rest,      \* ref_is: the part of the stream not read yet, as runs
    f_bad,       \* ref_is: reading past the last byte fails (badbit), not eof
    f_pc,        \* get_seq_counts: "idle", "loop", "returned_true", "returned_false"
    is_header_wrap, \* get_seq_counts::is_header_wrap
    line_no,     \* get_seq_counts::line_no
    sr,          \* get_seq_counts::sr, the scan_result
    report,      \* the lines put on report_os
    f_err,       \* the error get_seq_counts logged, "none" if none
    looked,      \* history: the indices isBase was read at
    oob          \* what a read of isBase outside 0 .. 127 yields, per index

ledgerVars == <<data, valRet, incs, hist>>

gateVars == <<skip, pc, cur, outcome, delivered, callLog, written, hookRaised>>

allrefVars == <<pi_head, pi_calls, ref_gt, ndebug, allref>>

filterVars == <<smod, os, encoded, setLog, dump>>

fastaVars == <<f_head, f_lines, f_nl, f_rest, f_bad, f_pc, is_header_wrap, line_no, sr, report,
               f_err, looked, oob>>

vars == <<ledgerVars, gateVars, allrefVars, filterVars, fastaVars>>

---------------------------------------------------------------------------
(* Bounds of the model *)

\* single inc(c) calls per coordinate between two clear_pos(c)
MaxIncs == 2
\* long runs of inc(c) calls per coordinate between two clear_pos(c)
MaxBursts == 1

\* check_process_pos calls in one run
MaxCalls == 4

\* pos_t is a signed 32 bit integer; a negative, the zero and a positive one
Coords == {-1, 0, 1}

\* the arguments of the check_process_pos calls
Stages == {0, 1}
GatePos == {-1, 1}

\* the failures a process_pos implementation may raise
Errors == {"e1", "e2"}

\* calls in the evidence handed to is_spi_allref
MaxEvidence == 3

\* bitset set() calls on one record
MaxSets == 3

\* lines of a FASTA input
MaxLines == 3

---------------------------------------------------------------------------
(* unsigned: 32 bit, value hi * 2^16 + lo, kept as the pair <<hi, lo>>     *)
(* because the arithmetic wraps at 2^32.                                   *)

Base == 65536

U32 == (0 .. Base - 1) \X (0 .. Base - 1)

U32Zero == <<0, 0>>

U32One == <<0, 1>>

U32Max == <<Base - 1, Base - 1>>

\* the unsigned of an integer 0 <= k < 2^31
U32OfInt(k) == <<(k \div Base) % Base, k % Base>>

\* a + b on unsigned: the carry out of the high half is dropped
U32Add(a, b) ==
    LET lo == a[2] + b[2]
        hi == a[1] + b[1] + (lo \div Base)
    IN  <<hi % Base, lo % Base>>

\* An exact (unbounded) natural number top * 2^32 + hi * 2^16 + lo, used by
\* the history variables only: it never wraps.
NatZero == <<0, 0, 0>>

NatAdd(n, b) ==
    LET lo == n[3] + b[2]
        hi == n[2] + b[1] + (lo \div Base)
    IN  <<n[1] + (hi \div Base), hi % Base, lo % Base>>

\* the exact value of an unsigned
NatOf(u) == <<0, u[1], u[2]>>

\* n mod 2^32, as an unsigned
NatMod32(n) == <<n[2], n[3]>>

\* a - b on unsigned
U32Sub(a, b) == U32Add(a, U32Add(<<Base - 1 - b[1], Base - 1 - b[2]>>, U32One))

\* exact numbers: 1, 2^32, the sum and the order
NatOne == <<0, 0, 1>>

NatBlock == <<1, 0, 0>>

NatPlus(a, b) ==
    LET lo == a[3] + b[3]
        hi == a[2] + b[2] + (lo \div Base)
    IN  <<a[1] + b[1] + (hi \div Base), hi % Base, lo % Base>>

NatLeq(a, b) ==
    IF a[1] # b[1] THEN a[1] < b[1]
    ELSE IF a[2] # b[2] THEN a[2] < b[2]
    ELSE a[3] <= b[3]

\* a added k times on unsigned
RECURSIVE U32Times(_, _)
U32Times(a, k) == IF k = 0 THEN U32Zero ELSE U32Add(a, U32Times(a, k - 1))

---------------------------------------------------------------------------
(* depth_buffer *)

\* val with the miss answered as if the entry had just been inserted by inc
val_MissOne(d, pos) ==
    IF pos \notin DOMAIN d THEN U32One ELSE d[pos]

\* depth_buffer::val
val(d, pos) ==
    IF pos \notin DOMAIN d THEN U32Zero ELSE d[pos]

\* std::map::operator[] assignment: _data[pos] = v
MapPut(d, pos, v) ==
    [p \in (DOMAIN d) \cup {pos} |-> IF p = pos THEN v ELSE d[p]]

\* inc with the found entry assigned instead of incremented
inc_NoAdd(d, pos) ==
    MapPut(d, pos, U32One)

\* depth_buffer::inc
inc(d, pos) ==
    IF pos \notin DOMAIN d
    THEN MapPut(d, pos, U32One)
    ELSE [d EXCEPT ![pos] = U32Add(d[pos], U32One)]

\* clear_pos with the erase left out
clear_pos_Noop(d, pos) ==
    d

\* clear_pos with the count reset in place instead of the entry erased
clear_pos_Zero(d, pos) ==
    MapPut(d, pos, U32Zero)

\* clear_pos with everything up to pos erased: erase(begin, upper_bound(pos))
clear_pos_Below(d, pos) ==
    [p \in {q \in DOMAIN d : q > pos} |-> d[p]]

\* depth_buffer::clear_pos
clear_pos(d, pos) ==
    [p \in (DOMAIN d) \ {pos} |-> d[p]]

\* The length of a long run of inc(pos) calls made back to back: 2^32 - 1.
BurstLen == U32Max

\* k >= 1 calls of inc(pos) back to back: the first call as inc, each of the
\* k - 1 others finds the entry and executes i->second += 1.
inc_times(d, pos, k) ==
    LET first == inc(d, pos)
        rest  == U32Add(k, U32Max)      \* k - 1 (mod 2^32), k >= 1
    IN  [first EXCEPT ![pos] = U32Add(first[pos], rest)]

EmptyMap == [p \in {} |-> U32Zero]

LedgerStart ==
    /\ data = EmptyMap
    /\ valRet = <<>>
    /\ incs = [c \in Coords |-> [n |-> NatZero, singles |-> 0, bursts |-> 0]]
    /\ hist = [c \in Coords |-> [everInc |-> FALSE, cleared |-> "never"]]

\* history only: how many inc(c) calls a clear_pos(c) wiped out
HowMany(n) ==
    IF n = NatZero THEN "zero" ELSE IF n = <<0, 0, 1>> THEN "one" ELSE "many"

\* val written with _data[pos], which inserts a zero entry on a miss
Val_Bracket(pos) ==
    /\ valRet' = <<pos, val(data, pos)>>
    /\ data' = MapPut(data, pos, val(data, pos))
    /\ UNCHANGED <<incs, hist>>
    /\ UNCHANGED <<gateVars, allrefVars, filterVars, fastaVars>>

\* a caller reads val(pos)
Val(pos) ==
    /\ valRet' = <<pos, val(data, pos)>>
    /\ UNCHANGED <<data, incs, hist>>
    /\ UNCHANGED <<gateVars, allrefVars, filterVars, fastaVars>>

\* a caller calls inc(pos)
Inc(pos) ==
    /\ incs[pos].singles < MaxIncs
    /\ data' = inc(data, pos)
    /\ incs' = [incs EXCEPT ![pos].n = NatAdd(@, U32One),
                            ![pos].singles = @ + 1]
    /\ hist' = [hist EXCEPT ![pos].everInc = TRUE]
    /\ valRet' = <<>>
    /\ UNCHANGED <<gateVars, allrefVars, filterVars, fastaVars>>

\* a caller calls inc(pos) BurstLen times back to back
IncBurst(pos) ==
    /\ incs[pos].bursts < MaxBursts
    /\ data' = inc_times(data, pos, BurstLen)
    /\ incs' = [incs EXCEPT ![pos].n = NatAdd(@, BurstLen),
                            ![pos].bursts = @ + 1]
    /\ hist' = [hist EXCEPT ![pos].everInc = TRUE]
    /\ valRet' = <<>>
    /\ UNCHANGED <<gateVars, allrefVars, filterVars, fastaVars>>

\* a caller calls clear_pos(pos)
ClearPos(pos) ==
    /\ data' = clear_pos(data, pos)
    /\ incs' = [incs EXCEPT ![pos] = [n |-> NatZero, singles |-> 0, bursts |-> 0]]
    /\ hist' = [hist EXCEPT ![pos].cleared = HowMany(incs[pos].n)]
    /\ valRet' = <<>>
    /\ UNCHANGED <<gateVars, allrefVars, filterVars, fastaVars>>

---------------------------------------------------------------------------
(* pos_processor_base *)

\* pos_processor_base::pos_processor_base, and the history before any call
GateStart ==
    /\ skip = FALSE
    /\ pc = "idle"
    /\ cur = <<>>
    /\ outcome = [kind |-> "none"]
    /\ delivered = <<>>
    /\ callLog = <<>>
    /\ written = FALSE
    /\ hookRaised = "none"

\* history: the call, whether it met the processor Active, and the number of
\* process_pos invocations made before it
CallRecord(stage_no, pos) ==
    [stage |-> stage_no, pos |-> pos, active |-> ~skip, before |-> Len(delivered)]

\* check_process_pos without the test of the flag
check_process_pos_NoGate(stage_no, pos) ==
    /\ pc = "idle"
    /\ Len(callLog) < MaxCalls
    /\ callLog' = Append(callLog, CallRecord(stage_no, pos))
    /\ pc' = "in_hook"
    /\ cur' = <<stage_no, pos>>
    /\ outcome' = [kind |-> "none"]
    /\ delivered' = Append(delivered, <<stage_no, pos>>)
    /\ hookRaised' = "none"
    /\ UNCHANGED <<skip, written>>
    /\ UNCHANGED <<ledgerVars, allrefVars, filterVars, fastaVars>>

\* check_process_pos with the process_pos call made twice
check_process_pos_Twice(stage_no, pos) ==
    /\ pc = "idle"
    /\ Len(callLog) < MaxCalls
    /\ callLog' = Append(callLog, CallRecord(stage_no, pos))
    /\ IF skip
       THEN /\ outcome' = [kind |-> "returned"]
            /\ UNCHANGED <<pc, cur, delivered>>
       ELSE /\ pc' = "in_hook"
            /\ cur' = <<stage_no, pos>>
            /\ outcome' = [kind |-> "none"]
            /\ delivered' = delivered \o << <<stage_no, pos>>, <<stage_no, pos>> >>
    /\ hookRaised' = "none"
    /\ UNCHANGED <<skip, written>>
    /\ UNCHANGED <<ledgerVars, allrefVars, filterVars, fastaVars>>

\* check_process_pos with the call put in front of the earlier ones
check_process_pos_Prepend(stage_no, pos) ==
    /\ pc = "idle"
    /\ Len(callLog) < MaxCalls
    /\ callLog' = Append(callLog, CallRecord(stage_no, pos))
    /\ IF skip
       THEN /\ outcome' = [kind |-> "returned"]
            /\ UNCHANGED <<pc, cur, delivered>>
       ELSE /\ pc' = "in_hook"
            /\ cur' = <<stage_no, pos>>
            /\ outcome' = [kind |-> "none"]
            /\ delivered' = << <<stage_no, pos>> >> \o delivered
    /\ hookRaised' = "none"
    /\ UNCHANGED <<skip, written>>
    /\ UNCHANGED <<ledgerVars, allrefVars, filterVars, fastaVars>>

\* check_process_pos that suppresses the processor once it has dispatched
check_process_pos_Latch(stage_no, pos) ==
    /\ pc = "idle"
    /\ Len(callLog) < MaxCalls
    /\ callLog' = Append(callLog, CallRecord(stage_no, pos))
    /\ IF skip
       THEN /\ outcome' = [kind |-> "returned"]
            /\ UNCHANGED <<pc, cur, delivered, skip>>
       ELSE /\ pc' = "in_hook"
            /\ cur' = <<stage_no, pos>>
            /\ outcome' = [kind |-> "none"]
            /\ delivered' = Append(delivered, <<stage_no, pos>>)
            /\ skip' = TRUE
    /\ hookRaised' = "none"
    /\ UNCHANGED written
    /\ UNCHANGED <<ledgerVars, allrefVars, filterVars, fastaVars>>

\* pos_processor_base::check_process_pos, up to the return (Suppressed) or up
\* to the entry into process_pos (Active)
check_process_pos(stage_no, pos) ==
    /\ pc = "idle"
    /\ Len(callLog) < MaxCalls
    /\ callLog' = Append(callLog, CallRecord(stage_no, pos))
    /\ IF skip
       THEN /\ outcome' = [kind |-> "returned"]
            /\ UNCHANGED <<pc, cur, delivered>>
       ELSE /\ pc' = "in_hook"
            /\ cur' = <<stage_no, pos>>
            /\ outcome' = [kind |-> "none"]
            /\ delivered' = Append(delivered, <<stage_no, pos>>)
    /\ hookRaised' = "none"
    /\ UNCHANGED <<skip, written>>
    /\ UNCHANGED <<ledgerVars, allrefVars, filterVars, fastaVars>>

\* process_pos returns, and check_process_pos returns after it
process_pos_Return ==
    /\ pc = "in_hook"
    /\ pc' = "idle"
    /\ cur' = <<>>
    /\ outcome' = [kind |-> "returned"]
    /\ UNCHANGED <<skip, delivered, callLog, written, hookRaised>>
    /\ UNCHANGED <<ledgerVars, allrefVars, filterVars, fastaVars>>

\* a check_process_pos that catches the failure and suppresses the processor
process_pos_Raise_Caught(e) ==
    /\ pc = "in_hook"
    /\ pc' = "idle"
    /\ cur' = <<>>
    /\ hookRaised' = e
    /\ outcome' = [kind |-> "returned"]
    /\ skip' = TRUE
    /\ UNCHANGED <<delivered, callLog, written>>
    /\ UNCHANGED <<ledgerVars, allrefVars, filterVars, fastaVars>>

\* process_pos raises e: check_process_pos has no handler, the failure leaves
\* it as it is
process_pos_Raise(e) ==
    /\ pc = "in_hook"
    /\ pc' = "idle"
    /\ cur' = <<>>
    /\ hookRaised' = e
    /\ outcome' = [kind |-> "raised", err |-> e]
    /\ UNCHANGED <<skip, delivered, callLog, written>>
    /\ UNCHANGED <<ledgerVars, allrefVars, filterVars, fastaVars>>

\* a flag whose setting inside process_pos cuts the running call short
SetSkip_Abort(b) ==
    /\ skip # b
    /\ skip' = b
    /\ written' = b
    /\ IF pc = "in_hook" /\ b
       THEN /\ pc' = "idle"
            /\ cur' = <<>>
            /\ outcome' = [kind |-> "returned"]
       ELSE UNCHANGED <<pc, cur, outcome>>
    /\ UNCHANGED <<delivered, callLog, hookRaised>>
    /\ UNCHANGED <<ledgerVars, allrefVars, filterVars, fastaVars>>

\* the subclass writes _is_skip_process_pos, inside process_pos or between
\* two calls
SetSkip(b) ==
    /\ skip # b
    /\ skip' = b
    /\ written' = b
    /\ UNCHANGED <<pc, cur, outcome, delivered, callLog, hookRaised>>
    /\ UNCHANGED <<ledgerVars, allrefVars, filterVars, fastaVars>>

---------------------------------------------------------------------------
(* is_spi_allref *)

\* BASE_ID (blt_util/seq_util.hh): A, C, G, T, ANY
BASE_ID_ANY == 4

BaseIds == 0 .. BASE_ID_ANY

RECURSIVE SeqsUpTo(_, _)
SeqsUpTo(S, n) ==
    IF n = 0 THEN {<<>>}
    ELSE LET shorter == SeqsUpTo(S, n - 1)
         IN  shorter \cup {Append(q, x) : q \in {r \in shorter : Len(r) = n - 1}, x \in S}

\* pi.calls as runs <<base_id, length>> of equal calls, the length exact
calls_of(head, calls) ==
    (IF head = <<>> THEN <<>> ELSE << <<head[1], NatBlock>> >>)
        \o [i \in 1 .. Len(calls) |-> <<calls[i], NatOne>>]

\* pi.calls.size()
RECURSIVE size(_)
size(runs) ==
    IF runs = <<>> THEN NatZero ELSE NatPlus(runs[1][2], size(Tail(runs)))

\* the loop of is_spi_allref over the runs not visited yet, with left =
\* n_calls - i passes to go (unsigned); the passes over one run all read the
\* same base_id, so the first of them decides for the run; the assert is
\* compiled in unless NDEBUG is defined
RECURSIVE allref_loop(_, _, _, _)
allref_loop(runs, ref, left, nodebug) ==
    IF left = U32Zero THEN "true"
    ELSE IF ~nodebug /\ runs[1][1] = BASE_ID_ANY THEN "assert_failed"
    ELSE IF ref # runs[1][1] THEN "false"
    ELSE IF NatLeq(NatOf(left), runs[1][2]) THEN "true"
    ELSE allref_loop(Tail(runs), ref, U32Sub(left, NatMod32(runs[1][2])), nodebug)

\* is_spi_allref: n_calls is the size of the vector cut to unsigned
is_spi_allref(runs, ref, nodebug) ==
    allref_loop(runs, ref, NatMod32(size(runs)), nodebug)

AllrefStart ==
    /\ pi_head = <<>>
    /\ pi_calls = <<>>
    /\ ref_gt = 0
    /\ ndebug = FALSE
    /\ allref = "unset"

\* a caller calls is_spi_allref(pi, ref_gt)
IsSpiAllref ==
    /\ allref = "unset"
    /\ allref' = is_spi_allref(calls_of(pi_head, pi_calls), ref_gt, ndebug)
    /\ UNCHANGED <<pi_head, pi_calls, ref_gt, ndebug>>
    /\ UNCHANGED <<ledgerVars, gateVars, filterVars, fastaVars>>

---------------------------------------------------------------------------
(* shared_modifiers / site_modifiers *)

\* VCF_FILTERS::SIZE (starling_common/gvcf_locus_info.hh)
VCF_FILTERS_SIZE == 3

\* VCF_FILTERS::get_label
get_label(i) == <<"F1", "F2", "F3">>[i + 1]

FilterKinds == 0 .. VCF_FILTERS_SIZE - 1

\* MODIFIED_SITE_GT::index_t
ModifiedSiteGt == {"NONE", "UNKNOWN", "ZERO", "ONE"}

Flags == {"is_unknown", "is_covered", "is_used_covered", "is_zero_ploidy", "is_block"}

\* std::bitset::none
none(f) == \A i \in FilterKinds : ~f[i]

\* the loop of write_filters from bit i on, with the tokens put out so far
RECURSIVE write_loop(_, _, _, _)
write_loop(f, i, is_sep, out) ==
    IF i >= VCF_FILTERS_SIZE THEN out
    ELSE IF f[i]
         THEN write_loop(f, i + 1, TRUE,
                         (IF is_sep THEN Append(out, ";") ELSE out) \o <<get_label(i)>>)
         ELSE write_loop(f, i + 1, is_sep, out)

\* write_filters with the PASS token tied to the site not being a block
write_filters_PassUnlessBlock(sm) ==
    IF none(sm.filters) /\ ~sm.is_block THEN <<"PASS">>
    ELSE write_loop(sm.filters, 0, FALSE, <<>>)

RECURSIVE write_loop_SepAfter(_, _, _)
write_loop_SepAfter(f, i, out) ==
    IF i >= VCF_FILTERS_SIZE THEN out
    ELSE IF f[i]
         THEN write_loop_SepAfter(f, i + 1, out \o <<get_label(i), ";">>)
         ELSE write_loop_SepAfter(f, i + 1, out)

\* write_filters with the separator put after every label
write_filters_SepAfter(sm) ==
    IF none(sm.filters) THEN <<"PASS">>
    ELSE write_loop_SepAfter(sm.filters, 0, <<>>)

\* shared_modifiers::write_filters: the tokens it puts on the stream
write_filters(sm) ==
    IF none(sm.filters) THEN <<"PASS">>
    ELSE write_loop(sm.filters, 0, FALSE, <<>>)

\* MODIFIED_SITE_GT::get_label
modified_gt_label(gt) ==
    CASE gt = "UNKNOWN" -> "."
      [] gt = "ZERO" -> "0"
      [] gt = "ONE" -> "1"

\* operator<< of ostream for a bool, without boolalpha
bool_out(b) == IF b THEN "1" ELSE "0"

\* operator<< with is_covered and is_used_covered printed under each other's name
print_site_modifiers_Swapped(sm) ==
    << "is_unknown: ", bool_out(sm.is_unknown),
       " is_covered: ", bool_out(sm.is_used_covered),
       " is_used_coverage: ", bool_out(sm.is_covered),
       " is_zero_ploidy: ", bool_out(sm.is_zero_ploidy),
       " is_block: ", bool_out(sm.is_block) >>
    \o (IF sm.modified_gt # "NONE"
        THEN <<" modgt: ", modified_gt_label(sm.modified_gt)>>
        ELSE <<>>)

\* operator<<(std::ostream&, const site_modifiers&): the tokens it puts on
\* the stream
print_site_modifiers(sm) ==
    << "is_unknown: ", bool_out(sm.is_unknown),
       " is_covered: ", bool_out(sm.is_covered),
       " is_used_coverage: ", bool_out(sm.is_used_covered),
       " is_zero_ploidy: ", bool_out(sm.is_zero_ploidy),
       " is_block: ", bool_out(sm.is_block) >>
    \o (IF sm.modified_gt # "NONE"
        THEN <<" modgt: ", modified_gt_label(sm.modified_gt)>>
        ELSE <<>>)

\* a record as the annotation stage creates it, nothing written yet
FilterStart ==
    /\ smod = [is_unknown |-> FALSE, is_covered |-> FALSE,
               is_used_covered |-> FALSE, is_zero_ploidy |-> FALSE,
               is_block |-> FALSE, modified_gt |-> "NONE",
               filters |-> [i \in FilterKinds |-> FALSE]]
    /\ os = <<>>
    /\ encoded = FALSE
    /\ setLog = <<>>
    /\ dump = <<>>

\* the annotation stage calls filters.set(i)
SetFilter(i) ==
    /\ ~encoded /\ dump = <<>>
    /\ Len(setLog) < MaxSets
    /\ smod' = [smod EXCEPT !.filters[i] = TRUE]
    /\ setLog' = Append(setLog, i)
    /\ UNCHANGED <<os, encoded, dump>>
    /\ UNCHANGED <<ledgerVars, gateVars, allrefVars, fastaVars>>

\* the annotation stage sets one of the five flags
SetFlag(name) ==
    /\ ~encoded /\ dump = <<>>
    /\ ~smod[name]
    /\ smod' = [smod EXCEPT ![name] = TRUE]
    /\ UNCHANGED <<os, encoded, setLog, dump>>
    /\ UNCHANGED <<ledgerVars, gateVars, allrefVars, fastaVars>>

\* the annotation stage sets modified_gt
SetModifiedGt(gt) ==
    /\ ~encoded /\ dump = <<>>
    /\ smod.modified_gt = "NONE"
    /\ gt # "NONE"
    /\ smod' = [smod EXCEPT !.modified_gt = gt]
    /\ UNCHANGED <<os, encoded, setLog, dump>>
    /\ UNCHANGED <<ledgerVars, gateVars, allrefVars, fastaVars>>

\* the serializer calls write_filters(os) with an empty stream
WriteFilters ==
    /\ ~encoded
    /\ os' = write_filters(smod)
    /\ encoded' = TRUE
    /\ UNCHANGED <<smod, setLog, dump>>
    /\ UNCHANGED <<ledgerVars, gateVars, allrefVars, fastaVars>>

\* a caller prints the record with operator<< on an empty stream
PrintSiteModifiers ==
    /\ dump = <<>>
    /\ dump' = print_site_modifiers(smod)
    /\ UNCHANGED <<smod, os, encoded, setLog>>
    /\ UNCHANGED <<ledgerVars, gateVars, allrefVars, fastaVars>>

---------------------------------------------------------------------------
(* countFastaBases: get_seq_counts *)

\* get_seq_counts::buff_size
buff_size == 512

NEWLINE == 10
NUL == 0
CR == 13
GT == 62

\* isBase: the indices of the table that hold 1 (A C G T a c g t)
isBase == [i \in 0 .. 127 |-> i \in {65, 67, 71, 84, 97, 99, 103, 116}]

\* static_cast<int8_t>(*b) for the byte value of *b
int8(byte) == IF byte >= 128 THEN byte - 256 ELSE byte

\* isspace in the C locale
isspace(byte) == byte \in (9 .. 13) \cup {32}

\* std::istream::getline(buff, n): characters are stored while fewer than
\* n - 1 are, the stream has more and the next one is no newline; then
\* eofbit at the end of the stream, else the newline is taken off the stream,
\* else failbit; failbit too when nothing at all was taken off the stream.
\* A stream whose buffer fails where its bytes end sets badbit there, and
\* no eofbit
RECURSIVE getline_loop(_, _, _, _)
getline_loop(rest, room, acc, badEnd) ==
    IF rest = <<>>
    THEN IF badEnd
         THEN [buff |-> acc, rest |-> <<>>, eof |-> FALSE, fail |-> TRUE, bad |-> TRUE]
         ELSE [buff |-> acc, rest |-> <<>>, eof |-> TRUE, fail |-> acc = <<>>,
               bad |-> FALSE]
    ELSE LET byte == rest[1][1]
             k    == rest[1][2]
         IN  IF byte = NEWLINE
             THEN [buff |-> acc,
                   rest |-> IF k > 1 THEN << <<NEWLINE, k - 1>> >> \o Tail(rest)
                                     ELSE Tail(rest),
                   eof |-> FALSE, fail |-> FALSE, bad |-> FALSE]
             ELSE IF room = 0
             THEN [buff |-> acc, rest |-> rest, eof |-> FALSE, fail |-> TRUE,
                   bad |-> FALSE]
             ELSE LET m == IF k <= room THEN k ELSE room
                  IN  getline_loop(IF k > m THEN << <<byte, k - m>> >> \o Tail(rest)
                                            ELSE Tail(rest),
                                   room - m, Append(acc, <<byte, m>>), badEnd)

getline(rest, n, badEnd) == getline_loop(rest, n - 1, <<>>, badEnd)

\* buff + 1: the buffer from its second character on
from_second(runs) ==
    IF runs = <<>> THEN <<>>
    ELSE IF runs[1][2] > 1 THEN << <<runs[1][1], runs[1][2] - 1>> >> \o Tail(runs)
    ELSE Tail(runs)

\* *c == '\0': the end of the C string, at a NUL the file held or at the
\* one getline puts behind what it stored
at_end(runs) == IF runs = <<>> THEN TRUE ELSE runs[1][1] = NUL

\* next_word(c): the runs left after the leading whitespace
RECURSIVE next_word(_)
next_word(runs) ==
    IF at_end(runs) \/ ~isspace(runs[1][1]) THEN runs ELSE next_word(Tail(runs))

\* next_word(c, true): the runs up to the first whitespace or the end of
\* the C string
RECURSIVE word_of(_)
word_of(runs) ==
    IF at_end(runs) \/ isspace(runs[1][1]) THEN <<>>
    ELSE <<runs[1]>> \o word_of(Tail(runs))

\* isBase[static_cast<int8_t>(*b)]: inside the table its entry, outside it
\* whatever the memory before the table holds
isBaseAt(idx, mem) == IF idx \in 0 .. 127 THEN isBase[idx] ELSE mem[idx]

\* the counting loop of get_seq_counts over one buffer
RECURSIVE count_loop(_, _, _)
count_loop(runs, res, mem) ==
    IF at_end(runs) THEN res
    ELSE LET byte == runs[1][1]
             k    == runs[1][2]
         IN  IF byte = CR THEN count_loop(Tail(runs), res, mem)
             ELSE count_loop(Tail(runs),
                             [res EXCEPT !.totalCount = U32Add(@, U32OfInt(k)),
                                         !.knownCount = IF isBaseAt(int8(byte), mem)
                                                        THEN U32Add(@, U32OfInt(k))
                                                        ELSE @],
                             mem)

\* the indices the counting loop reads isBase at
RECURSIVE indices_of(_)
indices_of(runs) ==
    IF at_end(runs) THEN {}
    ELSE (IF runs[1][1] = CR THEN {} ELSE {int8(runs[1][1])})
             \cup indices_of(Tail(runs))

\* scan_result::report: the lines on report_os after the call
sr_report(res, out) ==
    IF ~res.isSet THEN out
    ELSE Append(out, [contigName |-> res.contigName,
                      knownCount |-> res.knownCount,
                      totalCount |-> res.totalCount])

\* scan_result::reset
sr_reset(name) ==
    [contigName |-> name, knownCount |-> U32Zero, totalCount |-> U32Zero,
     isSet |-> TRUE]

\* scan_result::scan_result: the counts have no value before the first reset
sr_new ==
    [contigName |-> <<>>, knownCount |-> U32Zero, totalCount |-> U32Zero,
     isSet |-> FALSE]

\* the byte stream of a file given by its lines
RECURSIVE stream_of(_, _)
stream_of(lines, nl) ==
    IF lines = <<>> THEN <<>>
    ELSE IF Len(lines) = 1
    THEN lines[1] \o (IF nl THEN << <<NEWLINE, 1>> >> ELSE <<>>)
    ELSE lines[1] \o << <<NEWLINE, 1>> >> \o stream_of(Tail(lines), nl)

\* the bytes above 127 that the inputs hold, and their isBase indices
HighBytes == {195}

OutOfTable == {int8(b) : b \in HighBytes}

\* the lines the inputs are made of
LineMenu ==
    { << <<GT, 1>>, <<120, 1>> >>,                                \* >x
      << <<GT, 1>>, <<32, 1>>, <<120, 1>>, <<32, 1>>, <<65, 2>> >>, \* > x AA
      << <<GT, 1>>, <<121, 1>>, <<32, 1>>, <<65, 600>> >>,        \* >y A...A
      << <<GT, 1>> >>,                                            \* >
      << <<65, 1>>, <<67, 1>>, <<78, 1>>, <<116, 1>> >>,          \* ACNt
      << <<71, 1>>, <<84, 1>>, <<CR, 1>> >>,                      \* GT\r
      << <<65, buff_size - 1>> >>,                                \* 511 A
      << <<65, buff_size - 1>>, <<78, 89>> >>,                    \* 511 A, 89 N
      << <<65, buff_size - 1>>, <<GT, 1>>, <<120, 1>> >>,         \* 511 A, >x
      << <<103, 1100>> >>,                                        \* 1100 g
      << <<195, 1>>, <<65, 1>> >>,                                \* byte 195, A
      << <<65, 1>>, <<NUL, 1>>, <<67, 1>> >>,                     \* A, NUL, C
      << <<GT, 1>>, <<NUL, 1>>, <<120, 1>> >>,                    \* >, NUL, x
      << >> }                                                     \* empty line

\* The ways a file begins. A file that makes the unsigned counters of
\* get_seq_counts wrap holds some 2^32 lines or characters: such a file
\* begins with the header HeadHeader and then HeadTimes lines that each hold
\* HeadLine, and goes on with lines of the menu.
HeadKinds == {"none", "lines", "bases"}

HeadHeader == << <<GT, 1>>, <<120, 1>> >>

\* an empty line, or the line AA
HeadLine(h) == IF h = "bases" THEN << <<65, 2>> >> ELSE <<>>

\* 2^32 - 3 empty lines, or 2^31 - 1 lines AA
HeadTimes(h) ==
    IF h = "bases" THEN <<Base \div 2 - 1, Base - 1>> ELSE <<Base - 1, Base - 3>>

\* before get_seq_counts is called
FastaStart ==
    /\ f_head = "none"
    /\ f_lines = <<>>
    /\ f_nl = FALSE
    /\ f_rest = <<>>
    /\ f_bad = FALSE
    /\ f_pc = "idle"
    /\ is_header_wrap = FALSE
    /\ line_no = U32Zero
    /\ sr = sr_new
    /\ report = <<>>
    /\ f_err = "none"
    /\ looked = {}
    /\ oob = [i \in OutOfTable |-> FALSE]

\* get_seq_counts is entered with the stream at the start of the file
InitFasta ==
    /\ LedgerStart /\ GateStart /\ AllrefStart /\ FilterStart
    /\ f_head \in HeadKinds
    /\ f_lines \in SeqsUpTo(LineMenu, MaxLines)
    /\ f_nl \in BOOLEAN
    /\ f_rest = stream_of(f_lines, f_nl)
    /\ f_bad \in BOOLEAN
    /\ f_pc = IF f_head = "none" THEN "loop" ELSE "head"
    /\ is_header_wrap = FALSE
    /\ line_no = U32Zero
    /\ sr = sr_new
    /\ report = <<>>
    /\ f_err = "none"
    /\ looked = {}
    /\ oob \in [OutOfTable -> BOOLEAN]

\* one pass of the while loop: what getline delivers, is_wrap and line_no
Got == getline(f_rest, buff_size, f_bad)

AtEof == Got.fail /\ Got.eof

\* the pass goes on to the buffer: the read neither ended the stream nor
\* broke it
ReadOn == ~AtEof /\ ~Got.bad

IsWrap == Got.fail /\ ~Got.eof /\ ~Got.bad

LineNoNow == IF Got.fail THEN line_no ELSE U32Add(line_no, U32One)

\* (line_no+is_wrap)<=1, on unsigned
FirstLine == U32Add(LineNoNow, IF IsWrap THEN U32One ELSE U32Zero) \in {U32Zero, U32One}

FirstByte == IF Got.buff = <<>> THEN 0 ELSE Got.buff[1][1]

FastaFrame == UNCHANGED <<f_head, f_lines, f_nl, f_bad, oob, ledgerVars, gateVars, allrefVars, filterVars>>

\* The passes over the head of a long file, at once: the pass over the
\* header as LoopHeader, then HeadTimes passes as LoopSequence, each with
\* ++line_no and the counting loop over HeadLine. line_no goes from 2 up to
\* 1 + HeadTimes < 2^32 in them, so none of them takes another branch.
LoopHead ==
    /\ f_pc = "head"
    /\ LET started == sr_reset(word_of(next_word(from_second(HeadHeader))))
           perLine == count_loop(HeadLine(f_head), started, oob)
       IN  /\ report' = sr_report(sr, report)
           /\ sr' = [started EXCEPT
                        !.totalCount = U32Times(HeadTimes(f_head), perLine.totalCount[2]),
                        !.knownCount = U32Times(HeadTimes(f_head), perLine.knownCount[2])]
    /\ line_no' = U32Add(U32One, HeadTimes(f_head))
    /\ looked' = looked \cup indices_of(HeadLine(f_head))
    /\ f_pc' = "loop"
    /\ UNCHANGED <<f_rest, is_header_wrap, f_err>>
    /\ FastaFrame

\* getline fails at the end of the stream: break, return true; the
\* destructor of sr reports the last contig
LoopEof ==
    /\ f_pc = "loop"
    /\ AtEof
    /\ f_pc' = "returned_true"
    /\ f_rest' = Got.rest
    /\ report' = sr_report(sr, report)
    /\ sr' = [sr EXCEPT !.isSet = FALSE]
    /\ UNCHANGED <<is_header_wrap, line_no, f_err, looked>>
    /\ FastaFrame

\* getline fails with badbit: the error is logged, return false; the
\* destructor of sr reports the running contig
LoopReadFailure ==
    /\ f_pc = "loop"
    /\ Got.bad
    /\ f_pc' = "returned_false"
    /\ f_err' = "unexpected failure while attempting to read line"
    /\ f_rest' = Got.rest
    /\ report' = sr_report(sr, report)
    /\ sr' = [sr EXCEPT !.isSet = FALSE]
    /\ UNCHANGED <<is_header_wrap, line_no, looked>>
    /\ FastaFrame

\* the rest of a header line longer than the buffer is skipped
LoopHeaderRest ==
    /\ f_pc = "loop"
    /\ ReadOn
    /\ is_header_wrap
    /\ f_rest' = Got.rest
    /\ line_no' = LineNoNow
    /\ is_header_wrap' = IsWrap
    /\ UNCHANGED <<f_pc, sr, report, f_err, looked>>
    /\ FastaFrame

\* a buffer that starts with '>' and holds a name: the contig before is
\* reported and the new one started
LoopHeader ==
    /\ f_pc = "loop"
    /\ ReadOn
    /\ ~is_header_wrap
    /\ FirstByte = GT
    /\ ~at_end(next_word(from_second(Got.buff)))
    /\ f_rest' = Got.rest
    /\ line_no' = LineNoNow
    /\ is_header_wrap' = IsWrap
    /\ report' = sr_report(sr, report)
    /\ sr' = sr_reset(word_of(next_word(from_second(Got.buff))))
    /\ UNCHANGED <<f_pc, f_err, looked>>
    /\ FastaFrame

\* a buffer that starts with '>' and holds no name: the contig before is
\* reported, the error logged, return false
LoopHeaderNoName ==
    /\ f_pc = "loop"
    /\ ReadOn
    /\ ~is_header_wrap
    /\ FirstByte = GT
    /\ at_end(next_word(from_second(Got.buff)))
    /\ f_rest' = Got.rest
    /\ line_no' = LineNoNow
    /\ is_header_wrap' = IsWrap
    /\ report' = sr_report(sr, report)
    /\ sr' = [sr EXCEPT !.isSet = FALSE]
    /\ f_err' = "unexpected header format"
    /\ f_pc' = "returned_false"
    /\ UNCHANGED looked
    /\ FastaFrame

\* a first line that is no header: the error is logged, return false
LoopMissingHeader ==
    /\ f_pc = "loop"
    /\ ReadOn
    /\ ~is_header_wrap
    /\ FirstByte # GT
    /\ FirstLine
    /\ f_rest' = Got.rest
    /\ line_no' = LineNoNow
    /\ f_err' = "missing fasta header"
    /\ f_pc' = "returned_false"
    /\ report' = sr_report(sr, report)
    /\ sr' = [sr EXCEPT !.isSet = FALSE]
    /\ UNCHANGED <<is_header_wrap, looked>>
    /\ FastaFrame

\* any other buffer is counted into the running contig
LoopSequence ==
    /\ f_pc = "loop"
    /\ ReadOn
    /\ ~is_header_wrap
    /\ FirstByte # GT
    /\ ~FirstLine
    /\ f_rest' = Got.rest
    /\ line_no' = LineNoNow
    /\ sr' = count_loop(Got.buff, sr, oob)
    /\ looked' = looked \cup indices_of(Got.buff)
    /\ UNCHANGED <<f_pc, is_header_wrap, report, f_err>>
    /\ FastaFrame

NextFasta ==
    \/ LoopHead
    \/ LoopEof
    \/ LoopReadFailure
    \/ LoopHeaderRest
    \/ LoopHeader
    \/ LoopHeaderNoName
    \/ LoopMissingHeader
    \/ LoopSequence

SpecFasta == InitFasta /\ [][NextFasta]_vars

---------------------------------------------------------------------------
(* Specifications, one per component *)

InitLedger == LedgerStart /\ GateStart /\ AllrefStart /\ FilterStart /\ FastaStart

NextLedger ==
    \/ \E pos \in Coords : Val(pos)
    \/ \E pos \in Coords : Inc(pos)
    \/ \E pos \in Coords : IncBurst(pos)
    \/ \E pos \in Coords : ClearPos(pos)

SpecLedger == InitLedger /\ [][NextLedger]_vars

InitGate == LedgerStart /\ GateStart /\ AllrefStart /\ FilterStart /\ FastaStart

NextGate ==
    \/ \E stage_no \in Stages, pos \in GatePos : check_process_pos(stage_no, pos)
    \/ process_pos_Return
    \/ \E e \in Errors : process_pos_Raise(e)
    \/ \E b \in BOOLEAN : SetSkip(b)

SpecGate == InitGate /\ [][NextGate]_vars

InitAllref ==
    /\ LedgerStart /\ GateStart /\ FilterStart /\ FastaStart
    /\ pi_head \in {<<>>} \cup {<<b>> : b \in BaseIds}
    /\ pi_calls \in SeqsUpTo(BaseIds, MaxEvidence)
    /\ ref_gt \in BaseIds
    /\ ndebug \in BOOLEAN
    /\ allref = "unset"

NextAllref == IsSpiAllref

SpecAllref == InitAllref /\ [][NextAllref]_vars

InitFilters == LedgerStart /\ GateStart /\ AllrefStart /\ FilterStart /\ FastaStart

NextFilters ==
    \/ \E i \in FilterKinds : SetFilter(i)
    \/ \E name \in Flags : SetFlag(name)
    \/ \E gt \in ModifiedSiteGt : SetModifiedGt(gt)
    \/ WriteFilters
    \/ PrintSiteModifiers

SpecFilters == InitFilters /\ [][NextFilters]_vars

---------------------------------------------------------------------------
(* Claims about depth_buffer, checked under SpecLedger *)

\* C1 (as stated): for every coordinate c, with n the number of inc(c) calls
\* since construction or the last clear_pos(c), val(c) = n, for every n >= 0;
\* also for the value a val(c) call has just returned.
C1_ValEqualsIncCount ==
    /\ \A c \in Coords : NatOf(val(data, c)) = incs[c].n
    /\ valRet # <<>> => NatOf(valRet[2]) = incs[valRet[1]].n

\* C1 (amended): val(c) = n mod 2^32, the count being a 32 bit unsigned; so
\* val(c) = n for every n < 2^32.
C1_ValEqualsIncCountMod32 ==
    /\ \A c \in Coords : val(data, c) = NatMod32(incs[c].n)
    /\ valRet # <<>> => valRet[2] = NatMod32(incs[valRet[1]].n)

\* C1 witness: a coordinate incremented twice since its last clear_pos, with
\* another coordinate incremented and a third one cleared in between, read
\* back as 2 by a val call.
C1_Witness ==
    \E c \in Coords, d \in Coords, e \in Coords :
        /\ c # d /\ c # e /\ d # e
        /\ incs[c].n = <<0, 0, 2>>
        /\ hist[c].cleared = "one"
        /\ incs[d].n # NatZero
        /\ hist[e].cleared # "never"
        /\ valRet = <<c, <<0, 2>> >>

\* C1 witness of the wrap: 2^32 calls of inc(c), and val(c) returns 0.
C1_WrapWitness ==
    \E c \in Coords :
        /\ incs[c].n = <<1, 0, 0>>
        /\ valRet = <<c, U32Zero>>

\* C2: val(c) = 0 for every coordinate c, negative ones included, on which
\* inc(c) has never been called, whatever was done to the other coordinates.
C2_NeverIncrementedIsZero ==
    /\ \A c \in Coords : ~hist[c].everInc => val(data, c) = U32Zero
    /\ (valRet # <<>> /\ ~hist[valRet[1]].everInc) => valRet[2] = U32Zero

\* C2 witness: a negative coordinate never incremented reads 0 while the other
\* coordinates hold counts, one of them after a clear_pos.
C2_Witness ==
    \E c \in Coords :
        /\ c < 0
        /\ ~hist[c].everInc
        /\ valRet = <<c, U32Zero>>
        /\ \A d \in Coords \ {c} : d \in DOMAIN data /\ data[d] # U32Zero
        /\ \E d \in Coords \ {c} : hist[d].cleared = "many"

\* C3: after clear_pos(c), val(c) = 0 however often c was incremented before,
\* and after the first inc(c) that follows, val(c) = 1.
C3_ClearResets ==
    \A c \in Coords :
        hist[c].cleared # "never" =>
            /\ incs[c].n = NatZero => val(data, c) = U32Zero
            /\ incs[c].n = <<0, 0, 1>> => val(data, c) = U32One

\* C3 witness: c was incremented at least twice, cleared, incremented once,
\* and val(c) returned 1.
C3_Witness ==
    \E c \in Coords :
        /\ hist[c].cleared = "many"
        /\ incs[c].n = <<0, 0, 1>>
        /\ valRet = <<c, U32One>>

\* C3 witness right after the clear_pos: c held a count and reads 0.
C3_ClearedWitness ==
    \E c \in Coords :
        /\ hist[c].cleared = "many"
        /\ incs[c].n = NatZero
        /\ valRet = <<c, U32Zero>>

\* a < b on unsigned
U32Less(a, b) == a[1] < b[1] \/ (a[1] = b[1] /\ a[2] < b[2])

\* C11 (as stated): no stored entry holds the value zero: a coordinate has an
\* entry if and only if its count is non-zero.
C11_NoZeroEntry ==
    \A c \in Coords : c \in DOMAIN data <=> val(data, c) # U32Zero

\* C11 (amended): a coordinate has an entry if and only if inc(c) was called
\* at least once since construction or the last clear_pos(c); its entry holds
\* zero exactly when the number of those calls is a multiple of 2^32.
C11_EntryIffIncremented ==
    \A c \in Coords :
        /\ c \in DOMAIN data <=> incs[c].n # NatZero
        /\ c \in DOMAIN data =>
              (data[c] = U32Zero <=> NatMod32(incs[c].n) = U32Zero)

\* C11 witness: entries with non-zero counts, an erased coordinate, and one
\* entry that 2^32 calls of inc left stored with the value zero.
C11_Witness ==
    \E c \in Coords, d \in Coords, e \in Coords :
        /\ c \in DOMAIN data /\ data[c] = U32Zero /\ incs[c].n = <<1, 0, 0>>
        /\ d \in DOMAIN data /\ data[d] = <<0, 2>>
        /\ e \notin DOMAIN data /\ hist[e].cleared = "many"

\* C12: val(pos) never changes the ledger: the stored keys and counts are the
\* same before and after the call, and a read of an absent coordinate creates
\* no entry.
C12_ValReadsOnly ==
    [][valRet' # <<>> =>
          /\ data' = data
          /\ valRet'[2] = val(data, valRet'[1])
          /\ (valRet'[1] \notin DOMAIN data => valRet'[1] \notin DOMAIN data')]_vars

\* C12 witness: val has just returned 0 for a coordinate that has no entry,
\* beside a coordinate that has one.
C12_Witness ==
    \E c \in Coords, d \in Coords :
        /\ valRet = <<c, U32Zero>>
        /\ c \notin DOMAIN data
        /\ d \in DOMAIN data

\* history: the coordinates the step's call was made on (none for val, and
\* none for a clear_pos that found neither an entry nor a history to change)
Touched == {c \in Coords : incs'[c] # incs[c] \/ hist'[c] # hist[c]}

\* history: the step is a clear_pos call
IsClearStep ==
    /\ valRet' = <<>>
    /\ \A c \in Coords : /\ incs'[c].singles <= incs[c].singles
                         /\ incs'[c].bursts <= incs[c].bursts

\* C13: inc(c) and clear_pos(c) change the ledger only at c: val(d), and the
\* entry of d, are the same before and after for every d # c; clear_pos(c) on
\* a coordinate with no entry leaves the whole ledger unchanged.
C13_OnlyOwnCoordinate ==
    [][/\ Cardinality(Touched) <= 1
       /\ \A d \in Coords \ Touched :
             /\ val(data', d) = val(data, d)
             /\ d \in DOMAIN data' <=> d \in DOMAIN data
       /\ (IsClearStep /\ Touched \cap DOMAIN data = {}) => data' = data]_vars

\* C13 witness: clear_pos ran on a coordinate that never had an entry, and on
\* another one that had, while the third keeps its count of 2.
C13_Witness ==
    \E c \in Coords, d \in Coords, e \in Coords :
        /\ hist[c].cleared = "zero" /\ ~hist[c].everInc
        /\ hist[d].cleared = "many" /\ d \notin DOMAIN data
        /\ e \in DOMAIN data /\ data[e] = <<0, 2>> /\ incs[e].n = <<0, 0, 2>>

\* history: the step is one inc(c) call
IsIncStep(c) == incs'[c].singles = incs[c].singles + 1

\* C14 (as stated): no inc(c) makes val(c) smaller than it was before the
\* call, the count being a fixed-width unsigned.
C14_IncNeverDecreases ==
    [][\A c \in Coords :
          IsIncStep(c) => ~U32Less(val(data', c), val(data, c))]_vars

\* C14 (amended): an inc(c) makes val(c) larger by one, except the inc(c)
\* that finds the count at 2^32 - 1: that one wraps it to 0.
C14_IncAddsOneOrWraps ==
    [][\A c \in Coords :
          IsIncStep(c) =>
              /\ val(data', c) = U32Add(val(data, c), U32One)
              /\ val(data, c) # U32Max => U32Less(val(data, c), val(data', c))
              /\ val(data, c) = U32Max => val(data', c) = U32Zero]_vars

\* C14 witness: a count that went 2^32 - 1, 0, 1.
C14_Witness ==
    \E c \in Coords :
        /\ incs[c].n = <<1, 0, 1>>
        /\ incs[c].bursts = 1 /\ incs[c].singles = 2
        /\ data[c] = U32One

---------------------------------------------------------------------------
(* Claims about pos_processor_base, checked under SpecGate *)

LastCall == callLog[Len(callLog)]

\* C4: while the processor is Suppressed, a check_process_pos call returns
\* without invoking process_pos and without any other effect, and the number
\* of process_pos invocations stays the same across any number of calls made
\* while Suppressed.
C4_SuppressedIsNoOp ==
    /\ [](\A i \in 1 .. Len(callLog) : \A j \in i .. Len(callLog) :
            (\A k \in i .. j : ~callLog[k].active) =>
                /\ callLog[j].before = callLog[i].before
                /\ j = Len(callLog) => Len(delivered) = callLog[i].before)
    /\ [][(skip /\ Len(callLog') = Len(callLog) + 1) =>
            /\ delivered' = delivered
            /\ skip' = skip /\ pc' = pc /\ cur' = cur
            /\ outcome' = [kind |-> "returned"]
            /\ ledgerVars' = ledgerVars]_vars

\* C4 witness: one call delivered while Active, then three calls in a row made
\* while Suppressed, all returned, and still one invocation.
C4_Witness ==
    /\ Len(callLog) = 4
    /\ callLog[1].active
    /\ \A i \in 2 .. 4 : ~callLog[i].active
    /\ pc = "idle" /\ skip
    /\ outcome = [kind |-> "returned"]
    /\ Len(delivered) = 1

\* C5: while the processor is Active, every check_process_pos(stage, pos) call
\* invokes process_pos exactly once, with that stage and that pos, before it
\* returns.
C5_ActiveInvokesOnce ==
    \A i \in 1 .. Len(callLog) :
        callLog[i].active =>
            /\ Len(delivered) >= callLog[i].before + 1
            /\ delivered[callLog[i].before + 1] = <<callLog[i].stage, callLog[i].pos>>
            /\ i < Len(callLog) => callLog[i + 1].before = callLog[i].before + 1
            /\ i = Len(callLog) => Len(delivered) = callLog[i].before + 1

\* C5 witness: two calls with different arguments made while Active have
\* returned, each invoked process_pos once with its own arguments.
C5_Witness ==
    /\ Len(callLog) = 2
    /\ callLog[1].active /\ callLog[2].active
    /\ callLog[1].stage # callLog[2].stage
    /\ callLog[1].pos # callLog[2].pos
    /\ pc = "idle"
    /\ outcome = [kind |-> "returned"]
    /\ delivered = << <<callLog[1].stage, callLog[1].pos>>,
                      <<callLog[2].stage, callLog[2].pos>> >>

\* C10: when process_pos raises during a check_process_pos call made while
\* Active, the caller gets that same failure; process_pos was invoked once
\* for the call, and the flag is the one the subclass wrote last.
C10_FailurePropagates ==
    (pc = "idle" /\ hookRaised # "none") =>
        /\ outcome = [kind |-> "raised", err |-> hookRaised]
        /\ LastCall.active
        /\ Len(delivered) = LastCall.before + 1
        /\ skip = written

\* C10 witness: the second call's process_pos raised e2 and left the flag
\* alone; the caller holds e2 and the processor is still Active.
C10_Witness ==
    /\ Len(callLog) = 2
    /\ pc = "idle"
    /\ hookRaised = "e2"
    /\ outcome = [kind |-> "raised", err |-> "e2"]
    /\ ~skip
    /\ Len(delivered) = 2

\* C10 witness: process_pos set the flag and then raised; the processor is
\* Suppressed because the subclass said so.
C10_SuppressedByHookWitness ==
    /\ pc = "idle"
    /\ hookRaised = "e1"
    /\ outcome = [kind |-> "raised", err |-> "e1"]
    /\ LastCall.active
    /\ skip /\ written

\* C15: whether a check_process_pos call invokes process_pos is decided by
\* the flag as the call finds it; a flag set while process_pos runs does not
\* cut that call short, it suppresses the calls that start afterwards.
C15_FlagReadAtStart ==
    /\ [](pc = "in_hook" =>
            /\ LastCall.active
            /\ cur = <<LastCall.stage, LastCall.pos>>
            /\ Len(delivered) = LastCall.before + 1
            /\ delivered[Len(delivered)] = cur)
    /\ [][Len(callLog') = Len(callLog) + 1 =>
            /\ pc' = "in_hook" <=> ~skip
            /\ Len(delivered') = Len(delivered) + (IF skip THEN 0 ELSE 1)]_vars
    /\ [][(pc = "in_hook" /\ skip' # skip) =>
            /\ pc' = "in_hook"
            /\ cur' = cur
            /\ delivered' = delivered]_vars
    /\ [][(pc = "in_hook" /\ pc' = "idle") =>
            /\ skip' = skip
            /\ delivered' = delivered
            /\ outcome'.kind \in {"returned", "raised"}]_vars

\* C15 witness: process_pos is running with the flag already set by it.
C15_Witness ==
    /\ pc = "in_hook"
    /\ skip /\ written
    /\ LastCall.active
    /\ delivered[Len(delivered)] = cur

\* the calls that met the processor Active, in call order
ActiveCalls == SelectSeq(callLog, LAMBDA r : r.active)

\* C16: the <<stage, pos>> pairs handed to process_pos are the pairs of the
\* calls that started while Active, in call order: nothing is reordered,
\* repeated, or kept back and delivered later.
C16_DeliveredIsActiveSubsequence ==
    delivered = [i \in 1 .. Len(ActiveCalls) |->
                    <<ActiveCalls[i].stage, ActiveCalls[i].pos>>]

\* C16 witness: four calls, the flag toggled between them: the first and the
\* third were delivered, the second and the fourth dropped for good.
C16_Witness ==
    /\ Len(callLog) = 4
    /\ callLog[1].active /\ ~callLog[2].active
    /\ callLog[3].active /\ ~callLog[4].active
    /\ <<callLog[1].stage, callLog[1].pos>> # <<callLog[3].stage, callLog[3].pos>>
    /\ <<callLog[2].stage, callLog[2].pos>> # <<callLog[1].stage, callLog[1].pos>>
    /\ pc = "idle"
    /\ delivered = << <<callLog[1].stage, callLog[1].pos>>,
                      <<callLog[3].stage, callLog[3].pos>> >>

\* C17: a new processor is Active, and the flag is always the one the
\* constructor or the subclass wrote last: no check_process_pos call changes
\* it, so the processor has the two states Active and Suppressed and only
\* the subclass moves it between them.
C17_OnlySubclassMovesFlag ==
    /\ [](skip \in BOOLEAN /\ skip = written)
    /\ [](callLog = <<>> /\ ~written => ~skip)
    /\ [][skip' # skip =>
            /\ written' = skip'
            /\ callLog' = callLog
            /\ delivered' = delivered]_vars

\* C17 witness: three calls dispatched and returned, and the processor is
\* still Active.
C17_Witness ==
    /\ Len(callLog) = 3
    /\ \A i \in 1 .. 3 : callLog[i].active
    /\ Len(delivered) = 3
    /\ pc = "idle"
    /\ ~skip /\ ~written

---------------------------------------------------------------------------
(* Claims about is_spi_allref, checked under SpecAllref *)

\* the base_ids the evidence holds
ObservedIds ==
    {pi_calls[i] : i \in 1 .. Len(pi_calls)} \cup {pi_head[i] : i \in 1 .. Len(pi_head)}

HasAny == BASE_ID_ANY \in ObservedIds

\* C6: for evidence without the ANY sentinel, is_spi_allref returns true if
\* and only if every observed base_id equals ref_gt: true for no calls at all,
\* false as soon as one call differs.
C6_AllrefIffAllEqual ==
    (allref # "unset" /\ ~HasAny) =>
        /\ allref \in {"true", "false"}
        /\ allref = "true" <=> \A b \in ObservedIds : b = ref_gt

\* C6, what the code does keep: the statement for evidence of fewer than
\* 2^32 calls
C6_HoldsBelowWrap ==
    (allref # "unset" /\ ~HasAny /\ pi_head = <<>>) =>
        /\ allref \in {"true", "false"}
        /\ allref = "true" <=> \A i \in 1 .. Len(pi_calls) : pi_calls[i] = ref_gt

\* C6: 2^32 calls that all differ from ref_gt, answered true
C6_WrapAnsweredTrue ==
    /\ allref = "true"
    /\ pi_head # <<>> /\ pi_head[1] # ref_gt /\ pi_head[1] # BASE_ID_ANY
    /\ pi_calls = <<>>

\* C7: in a build with assertions, evidence that holds ANY at any index ends
\* the call in the assertion failure, never in a boolean.
C7_AnyAlwaysAsserts ==
    (allref # "unset" /\ ~ndebug /\ HasAny) => allref = "assert_failed"

\* C7: the case the assertion does catch: evidence of fewer than 2^32 calls
\* with ANY and only calls equal to ref_gt before it.
C7_AnyReachedAsserts ==
    (/\ allref # "unset" /\ ~ndebug /\ pi_head = <<>>
     /\ \E i \in 1 .. Len(pi_calls) :
            /\ pi_calls[i] = BASE_ID_ANY
            /\ \A j \in 1 .. i - 1 : pi_calls[j] = ref_gt /\ pi_calls[j] # BASE_ID_ANY)
        => allref = "assert_failed"

\* C7: the call [C, ANY] against A in a build with assertions, answered false
C7_SwallowedAsFalse ==
    /\ allref = "false" /\ ~ndebug
    /\ pi_head = <<>> /\ pi_calls = <<1, BASE_ID_ANY>> /\ ref_gt = 0

\* C7: 2^32 calls, all ANY, in a build with assertions, answered true
C7_SwallowedAsTrue ==
    /\ allref = "true" /\ ~ndebug
    /\ pi_head = <<BASE_ID_ANY>> /\ pi_calls = <<>>

---------------------------------------------------------------------------
(* Claims about write_filters, checked under SpecFilters *)

\* the filter kinds set on the record so far
SetKinds == {setLog[k] : k \in 1 .. Len(setLog)}

\* the j-th smallest member of a set of filter kinds
NthKind(S, j) == CHOOSE x \in S : Cardinality({y \in S : y < x}) = j - 1

Tokens(q) == {q[k] : k \in 1 .. Len(q)}

\* C8: write_filters emits the token PASS, and nothing else, if and only if
\* no filter bit is set; with a bit set it emits no PASS but labels of set
\* bits; the five flags and modified_gt do not change this.
C8_PassIffNoFilter ==
    encoded =>
        /\ os = <<"PASS">> <=> SetKinds = {}
        /\ SetKinds # {} =>
              /\ "PASS" \notin Tokens(os)
              /\ \E i \in SetKinds : get_label(i) \in Tokens(os)
              /\ Tokens(os) \subseteq {get_label(i) : i \in SetKinds} \cup {";"}

\* C8 witness: a record with all five flags and modified_gt set and no filter
\* bit was written as PASS.
C8_Witness ==
    /\ encoded
    /\ os = <<"PASS">>
    /\ \A name \in Flags : smod[name]
    /\ smod.modified_gt # "NONE"
    /\ none(smod.filters)

\* C8 witness: a record with a filter bit and a flag set was written without PASS.
C8_FilteredWitness ==
    /\ encoded
    /\ "PASS" \notin Tokens(os)
    /\ smod.is_block
    /\ ~none(smod.filters)

\* C9: for a non-empty set of filter kinds, in whatever order and however
\* often the bits were set, write_filters emits the labels of the set bits in
\* ascending index order with one ";" between two labels and none before the
\* first or after the last: k bits give k - 1 separators.
C9_CanonicalJoin ==
    (encoded /\ SetKinds # {}) =>
        LET k == Cardinality(SetKinds)
        IN  /\ Len(os) = 2 * k - 1
            /\ \A j \in 1 .. k : os[2 * j - 1] = get_label(NthKind(SetKinds, j))
            /\ \A j \in 1 .. k - 1 : os[2 * j] = ";"

\* C9 witness: the bits were set in descending order, one of them twice, and
\* the labels came out ascending.
C9_Witness ==
    /\ encoded
    /\ setLog = <<2, 0, 2>>
    /\ os = <<get_label(0), ";", get_label(2)>>

\* C9 witness: a single set bit gives its label and no separator.
C9_SingleWitness ==
    /\ encoded
    /\ Cardinality(SetKinds) = 1
    /\ Len(os) = 1
    /\ ";" \notin Tokens(os)

\* how a flag reads on the stream
FlagText(b) == IF b THEN "1" ELSE "0"

\* C18: the rendering of a site_modifiers record prints the five flags in the
\* order is_unknown, is_covered, is_used_coverage, is_zero_ploidy, is_block,
\* each with the value of its field, and then the modgt label if and only if
\* modified_gt is not NONE; the filter set does not change the output.
C18_DumpIsFlagsThenModGt ==
    dump # <<>> =>
        /\ Len(dump) >= 10
        /\ SubSeq(dump, 1, 10) =
              << "is_unknown: ", FlagText(smod.is_unknown),
                 " is_covered: ", FlagText(smod.is_covered),
                 " is_used_coverage: ", FlagText(smod.is_used_covered),
                 " is_zero_ploidy: ", FlagText(smod.is_zero_ploidy),
                 " is_block: ", FlagText(smod.is_block) >>
        /\ smod.modified_gt = "NONE" <=> Len(dump) = 10
        /\ smod.modified_gt # "NONE" =>
              /\ Len(dump) = 12
              /\ dump[11] = " modgt: "
              /\ dump[12] = modified_gt_label(smod.modified_gt)

\* C18 witness: a record with is_covered set, is_used_covered clear, two
\* filter bits and modified_gt set was printed with the modgt label.
C18_Witness ==
    /\ Len(dump) = 12
    /\ smod.is_covered /\ ~smod.is_used_covered /\ smod.is_block
    /\ smod.modified_gt = "ZERO"
    /\ Cardinality(SetKinds) = 2

\* C18 witness: a record with modified_gt NONE and a filter bit was printed
\* without the modgt label.
C18_NoneWitness ==
    /\ Len(dump) = 10
    /\ smod.modified_gt = "NONE"
    /\ smod.is_used_covered /\ ~smod.is_covered
    /\ SetKinds # {}


---------------------------------------------------------------------------
(* Claims on countFastaBases *)

IsHeaderLine(l) == l # <<>> /\ l[1][1] = GT

\* a header line that names a contig
WellFormedHeader(l) == IsHeaderLine(l) /\ ~at_end(next_word(from_second(l)))

KnownBases == {65, 67, 71, 84, 97, 99, 103, 116}

RECURSIVE LineTotal(_)
LineTotal(l) ==
    IF l = <<>> THEN 0
    ELSE (IF l[1][1] = CR THEN 0 ELSE l[1][2]) + LineTotal(Tail(l))

RECURSIVE LineKnown(_)
LineKnown(l) ==
    IF l = <<>> THEN 0
    ELSE (IF l[1][1] \in KnownBases THEN l[1][2] ELSE 0) + LineKnown(Tail(l))

\* the counts per header line, taken line by line from the file, as exact
\* numbers
RECURSIVE ExpectedFrom(_, _)
ExpectedFrom(lines, acc) ==
    IF lines = <<>> THEN acc
    ELSE IF IsHeaderLine(lines[1])
    THEN ExpectedFrom(Tail(lines),
                      Append(acc, [knownCount |-> NatZero, totalCount |-> NatZero]))
    ELSE IF acc = <<>> THEN ExpectedFrom(Tail(lines), acc)
    ELSE ExpectedFrom(Tail(lines),
             [acc EXCEPT ![Len(acc)] =
                 [knownCount |-> NatAdd(@.knownCount, U32OfInt(LineKnown(lines[1]))),
                  totalCount |-> NatAdd(@.totalCount, U32OfInt(LineTotal(lines[1])))]])

\* the exact product of an unsigned and a small number
RECURSIVE NatTimes(_, _)
NatTimes(u, k) == IF k = 0 THEN NatZero ELSE NatAdd(NatTimes(u, k - 1), u)

\* the header line of the head of the file with the counts of its lines
ExpectedOfHead ==
    IF f_head = "none" THEN <<>>
    ELSE << [knownCount |-> NatTimes(HeadTimes(f_head), LineKnown(HeadLine(f_head))),
             totalCount |-> NatTimes(HeadTimes(f_head), LineTotal(HeadLine(f_head)))] >>

Expected == ExpectedFrom(f_lines, ExpectedOfHead)

Reported ==
    [i \in 1 .. Len(report) |->
        [knownCount |-> NatOf(report[i].knownCount),
         totalCount |-> NatOf(report[i].totalCount)]]

\* the first line of the file is a header that names a contig
FirstLineWellFormed ==
    IF f_head # "none" THEN WellFormedHeader(HeadHeader)
    ELSE IF f_lines = <<>> THEN FALSE
    ELSE WellFormedHeader(f_lines[1])

Returned == f_pc \in {"returned_true", "returned_false"}

\* get_seq_counts met no stream error
NoStreamError == f_err # "unexpected failure while attempting to read line"

\* C19: for every input whose first line is a well-formed header and that
\* is read without stream error, get_seq_counts emits one report line per header line, in input order, with
\* totalCount the number of non-'\r' characters on the sequence lines of
\* that contig and knownCount the number of them in ACGTacgt, however the
\* lines longer than the read buffer are split into chunks
C19_OneReportPerHeaderLine ==
    (Returned /\ NoStreamError /\ FirstLineWellFormed) => Reported = Expected

\* the character at offset pos (from 0) of a line, 0 past its end
RECURSIVE CharAt(_, _)
CharAt(l, pos) ==
    IF l = <<>> THEN 0
    ELSE IF pos < l[1][2] THEN l[1][1]
    ELSE CharAt(Tail(l), pos - l[1][2])

AllHeadersWellFormed ==
    \A i \in 1 .. Len(f_lines) : IsHeaderLine(f_lines[i]) => WellFormedHeader(f_lines[i])

\* every byte of the file is within 1 .. 127
AllAscii ==
    \A i \in 1 .. Len(f_lines) : \A j \in 1 .. Len(f_lines[i]) :
        f_lines[i][j][1] \in 1 .. 127

\* a sequence line with '>' where a chunk of buff_size - 1 characters starts
SplitAtMarker ==
    \E i \in 1 .. Len(f_lines) :
        /\ ~IsHeaderLine(f_lines[i])
        /\ \E m \in 1 .. 3 : CharAt(f_lines[i], m * (buff_size - 1)) = GT

\* the statement of C19 over the files whose header lines all name a contig
\* and whose bytes are all within 1 .. 127
C19_WellFormedAsciiFiles ==
    (Returned /\ NoStreamError /\ AllHeadersWellFormed /\ AllAscii
        /\ FirstLineWellFormed)
        => Reported = Expected

\* what the code does keep: the statement of C19 over those files that have
\* no '>' at a chunk start inside a sequence line and fewer than 2^32 lines
\* and characters
C19_HoldsWithoutSplitMarker ==
    (Returned /\ NoStreamError /\ f_head = "none" /\ AllHeadersWellFormed /\ AllAscii
        /\ ~SplitAtMarker /\ FirstLineWellFormed)
        => (f_pc = "returned_true" /\ Reported = Expected)

\* C20: for every byte on a sequence line, the index
\* static_cast<int8_t>(byte) that isBase is read at lies within 0 .. 127
C20_IndexWithinTable == looked \subseteq 0 .. 127

\* the out-of-table read decides the count: byte 195 counted as a known base
C20_CountedAsKnown ==
    /\ f_pc = "returned_true"
    /\ f_head = "none"
    /\ Len(f_lines) = 2
    /\ Len(report) = 1
    /\ U32Less(U32OfInt(LineKnown(f_lines[2])), report[1].knownCount)

====
